---- MODULE Spec2Model ----
(***************************************************************************)
(* A model of bodgit/dreamcast.  Package gdi: the GDI track-layout File,   *)
(* its validation (File.validate) and its text codec (File.MarshalText,    *)
(* File.UnmarshalText, split).  Package dreamcast: the IP.BIN decoder      *)
(* (IPBin.UnmarshalBinary) and the Game (NewGame, Game.isRedump,           *)
(* Game.Write, writeGDIFile) with the streams it opens and closes.  Text   *)
(* is a sequence of one-character strings so that formatting, line         *)
(* scanning, field splitting, quote trimming and number parsing are        *)
(* computed character by character.                                        *)
(***************************************************************************)
EXTENDS Integers, Sequences, FiniteSets, TLC

(***************************************************************************)
(* Bounds of the explored inputs.                                          *)
(***************************************************************************)
\* the longest track list that is built
MaxTracks == 4
\* how many fields (or tokens) of the well-formed base input are overwritten
MaxEdits == 2

(***************************************************************************)
(* Constants of package gdi.                                               *)
(***************************************************************************)
SectorSize == 2352
TrackThreeStart == 45000
minTracks == 3
maxTracks == 99
TypeAudio == 0
TypeData == 4
NoWhitespace == 1
trackNumber == 0
trackStart == 1
trackType == 2
trackSectorSize == 3
trackName == 4
trackZero == 5
trackFields == 6

(***************************************************************************)
(* Errors.  Every error is a record so that any two can be compared; num   *)
(* is the offending text of a *strconv.NumError and empty otherwise.       *)
(***************************************************************************)
NamedError(n) == [name |-> n, num |-> <<>>]
nil == NamedError("nil")
errInvalidTrack == NamedError("errInvalidTrack")
errNotEnoughTracks == NamedError("errNotEnoughTracks")
errTooManyTracks == NamedError("errTooManyTracks")
errInconsistentTracks == NamedError("errInconsistentTracks")
errInvalidStart == NamedError("errInvalidStart")
errInvalidType == NamedError("errInvalidType")
errNonContinuousTracks == NamedError("errNonContinuousTracks")
errInvalidSectorSize == NamedError("errInvalidSectorSize")
errFieldNotZero == NamedError("errFieldNotZero")
\* the error the package's test expects of track starts that go backwards
errOverlappingTracks == NamedError("errOverlappingTracks")
\* &strconv.NumError{Func: "Atoi", Num: s, Err: strconv.ErrSyntax}
NumError(s) == [name |-> "NumError", num |-> s]

(***************************************************************************)
(* Characters.                                                             *)
(***************************************************************************)
Digits == <<"0", "1", "2", "3", "4", "5", "6", "7", "8", "9">>
DigitChars == {Digits[i] : i \in 1..10}
DigitVal(c) == (CHOOSE i \in 1..10 : Digits[i] = c) - 1
Quote == "\""
Space == " "
Newline == "\n"
\* unicode.IsSpace, on the characters that occur in the explored texts
IsSpace(c) == c \in {" ", "\t", "\n", "\r"}

RECURSIVE Spaces(_)
Spaces(n) == IF n <= 0 THEN <<>> ELSE <<Space>> \o Spaces(n - 1)

(***************************************************************************)
(* strconv and fmt.                                                        *)
(***************************************************************************)
\* strconv.FormatUint(n, 10) for 0 <= n
RECURSIVE FormatUint(_)
FormatUint(n) ==
    IF n < 10 THEN <<Digits[n + 1]>>
    ELSE Append(FormatUint(n \div 10), Digits[(n % 10) + 1])

\* len(strconv.FormatUint(uint64(n), 10)): a negative int converts to
\* 2^64 - |n|, which has 20 decimal digits for every |n| below 8 * 10^18
uint64Width(n) == IF n < 0 THEN 20 ELSE Len(FormatUint(n))

\* the verb %d
FormatInt(n) == IF n < 0 THEN <<"-">> \o FormatUint(0 - n) ELSE FormatUint(n)

\* the verb %*d: right-aligned in width w, never truncated
FormatIntWidth(w, n) == Spaces(w - Len(FormatInt(n))) \o FormatInt(n)

RECURSIVE digitsValue(_, _)
digitsValue(s, acc) ==
    IF s = <<>> THEN acc ELSE digitsValue(Tail(s), acc * 10 + DigitVal(Head(s)))

\* strconv.Atoi: an optional sign, then one or more decimal digits
Atoi(s) ==
    LET signed == s # <<>> /\ Head(s) \in {"+", "-"}
        body == IF signed THEN Tail(s) ELSE s
    IN  IF body = <<>> \/ \E i \in DOMAIN body : body[i] \notin DigitChars
        THEN [v |-> 0, err |-> NumError(s)]
        ELSE [v |-> IF signed /\ Head(s) = "-" THEN 0 - digitsValue(body, 0)
                    ELSE digitsValue(body, 0),
              err |-> nil]

\* strings.ContainsAny(name, " ")
ContainsAny(s, c) == \E i \in DOMAIN s : s[i] = c

RECURSIVE TrimLeft(_, _)
TrimLeft(s, c) == IF s # <<>> /\ Head(s) = c THEN TrimLeft(Tail(s), c) ELSE s

RECURSIVE TrimRight(_, _)
TrimRight(s, c) ==
    IF s # <<>> /\ s[Len(s)] = c THEN TrimRight(SubSeq(s, 1, Len(s) - 1), c) ELSE s

\* strings.Trim(s, `"`)
Trim(s, c) == TrimRight(TrimLeft(s, c), c)

(***************************************************************************)
(* bufio.Scanner with the default bufio.ScanLines: the text is cut at      *)
(* every newline, and a last line without a newline is a line when it is   *)
(* not empty.  (No explored text holds a carriage return.)                 *)
(***************************************************************************)
RECURSIVE scanLines(_, _, _)
scanLines(text, i, cur) ==
    IF i > Len(text) THEN (IF cur = <<>> THEN <<>> ELSE <<cur>>)
    ELSE IF text[i] = Newline THEN <<cur>> \o scanLines(text, i + 1, <<>>)
    ELSE scanLines(text, i + 1, Append(cur, text[i]))

ScanLines(text) == scanLines(text, 1, <<>>)

(***************************************************************************)
(* split: strings.FieldsFunc with the closure that toggles withinQuotes on *)
(* every double quote and separates on white space outside quotes.         *)
(***************************************************************************)
RECURSIVE FieldsFunc(_, _, _, _, _)
FieldsFunc(s, i, withinQuotes, cur, acc) ==
    IF i > Len(s)
    THEN [fields |-> IF cur = <<>> THEN acc ELSE Append(acc, cur),
          withinQuotes |-> withinQuotes]
    ELSE LET c == s[i]
             wq == IF c = Quote THEN ~withinQuotes ELSE withinQuotes
         IN  IF IsSpace(c) /\ ~wq
             THEN FieldsFunc(s, i + 1, wq, <<>>,
                             IF cur = <<>> THEN acc ELSE Append(acc, cur))
             ELSE FieldsFunc(s, i + 1, wq, Append(cur, c), acc)

split(s) ==
    LET r == FieldsFunc(s, 1, FALSE, <<>>, <<>>)
    IN  IF r.withinQuotes \/ Len(r.fields) # trackFields
        THEN [fields |-> <<>>, err |-> errInvalidTrack]
        ELSE [fields |-> r.fields, err |-> nil]

(***************************************************************************)
(* File.validate                                                           *)
(***************************************************************************)
\* validateTrack without the check of the reserved field
validateTrack_SkipsZero(track, i) ==
    IF i = 2 /\ track.Start # TrackThreeStart THEN errInvalidStart
    ELSE IF i \in {0, 2} /\ track.Type # TypeData THEN errInvalidType
    ELSE IF i = 1 /\ track.Type # TypeAudio THEN errInvalidType
    ELSE IF track.Number # i + 1 THEN errNonContinuousTracks
    ELSE IF track.SectorSize # SectorSize THEN errInvalidSectorSize
    ELSE nil

\* validateTrack reporting a wrong start of track 3 as a wrong type
validateTrack_StartAsType(track, i) ==
    IF i = 2 /\ track.Start # TrackThreeStart THEN errInvalidType
    ELSE IF i \in {0, 2} /\ track.Type # TypeData THEN errInvalidType
    ELSE IF i = 1 /\ track.Type # TypeAudio THEN errInvalidType
    ELSE IF track.Number # i + 1 THEN errNonContinuousTracks
    ELSE IF track.SectorSize # SectorSize THEN errInvalidSectorSize
    ELSE IF track.Zero # 0 THEN errFieldNotZero
    ELSE nil

\* validateTrack checking the sector size before the track number
validateTrack_SectorSizeFirst(track, i) ==
    IF i = 2 /\ track.Start # TrackThreeStart THEN errInvalidStart
    ELSE IF i \in {0, 2} /\ track.Type # TypeData THEN errInvalidType
    ELSE IF i = 1 /\ track.Type # TypeAudio THEN errInvalidType
    ELSE IF track.SectorSize # SectorSize THEN errInvalidSectorSize
    ELSE IF track.Number # i + 1 THEN errNonContinuousTracks
    ELSE IF track.Zero # 0 THEN errFieldNotZero
    ELSE nil

\* the body of the range loop for the track at Go index i
validateTrack(track, i) ==
    IF i = 2 /\ track.Start # TrackThreeStart THEN errInvalidStart
    ELSE IF i \in {0, 2} /\ track.Type # TypeData THEN errInvalidType
    ELSE IF i = 1 /\ track.Type # TypeAudio THEN errInvalidType
    ELSE IF track.Number # i + 1 THEN errNonContinuousTracks
    ELSE IF track.SectorSize # SectorSize THEN errInvalidSectorSize
    ELSE IF track.Zero # 0 THEN errFieldNotZero
    ELSE nil

RECURSIVE validateTracks(_, _)
validateTracks(tracks, i) ==
    IF i >= Len(tracks) THEN nil
    ELSE LET e == validateTrack(tracks[i + 1], i)
         IN  IF e # nil THEN e ELSE validateTracks(tracks, i + 1)

validate(f) ==
    IF f.Count < minTracks THEN errNotEnoughTracks
    ELSE IF f.Count > maxTracks THEN errTooManyTracks
    ELSE IF Len(f.Tracks) # f.Count THEN errInconsistentTracks
    ELSE validateTracks(f.Tracks, 0)

(***************************************************************************)
(* File.MarshalText                                                        *)
(***************************************************************************)
\* one Fprintf of the range loop
marshalTrack(track, numberWidth, startWidth) ==
    LET name == IF ContainsAny(track.Name, Space)
                THEN <<Quote>> \o track.Name \o <<Quote>>
                ELSE track.Name
    IN  FormatIntWidth(numberWidth, track.Number) \o <<Space>>
        \o FormatIntWidth(startWidth, track.Start) \o <<Space>>
        \o FormatInt(track.Type) \o <<Space>>
        \o FormatInt(track.SectorSize) \o <<Space>>
        \o name \o <<Space>>
        \o FormatInt(track.Zero) \o <<Newline>>

\* f.Flags&flag != 0, for a flag that is a single bit
HasFlag(flags, flag) == (flags \div flag) % 2 = 1

RECURSIVE marshalTracks(_, _, _, _)
marshalTracks(tracks, i, numberWidth, startWidth) ==
    IF i > Len(tracks) THEN <<>>
    ELSE marshalTrack(tracks[i], numberWidth, startWidth)
         \o marshalTracks(tracks, i + 1, numberWidth, startWidth)

MarshalText(f) ==
    LET e == validate(f)
    IN  IF e # nil THEN [b |-> <<>>, err |-> e]
        ELSE LET last == f.Tracks[Len(f.Tracks)]
                 numberWidth == IF HasFlag(f.Flags, NoWhitespace) THEN 1
                                ELSE uint64Width(last.Number)
                 startWidth == IF HasFlag(f.Flags, NoWhitespace) THEN 1
                               ELSE uint64Width(last.Start)
             IN  [b |-> FormatInt(Len(f.Tracks)) \o <<Newline>>
                        \o marshalTracks(f.Tracks, 1, numberWidth, startWidth),
                  err |-> nil]

(***************************************************************************)
(* File.UnmarshalText                                                      *)
(***************************************************************************)
\* the default case of the switch: one track line; the fields are
\* converted in the order number, start, type, sector size, (name), zero
unmarshalTrack(line) ==
    LET s == split(line)
    IN  IF s.err # nil THEN [track |-> <<>>, err |-> s.err]
        ELSE
        LET number == Atoi(s.fields[trackNumber + 1])
            start == Atoi(s.fields[trackStart + 1])
            type == Atoi(s.fields[trackType + 1])
            size == Atoi(s.fields[trackSectorSize + 1])
            zero == Atoi(s.fields[trackZero + 1])
        IN  IF number.err # nil THEN [track |-> <<>>, err |-> number.err]
            ELSE IF start.err # nil THEN [track |-> <<>>, err |-> start.err]
            ELSE IF type.err # nil THEN [track |-> <<>>, err |-> type.err]
            ELSE IF size.err # nil THEN [track |-> <<>>, err |-> size.err]
            ELSE IF zero.err # nil THEN [track |-> <<>>, err |-> zero.err]
            ELSE [track |-> [Number |-> number.v, Start |-> start.v,
                             Type |-> type.v, SectorSize |-> size.v,
                             Name |-> Trim(s.fields[trackName + 1], Quote),
                             Zero |-> zero.v],
                  err |-> nil]

\* the scan loop from line i (0 is the count line) with the receiver as
\* built so far; an early return leaves the receiver as it is
RECURSIVE unmarshalLines(_, _, _)
unmarshalLines(lines, i, f) ==
    IF i >= Len(lines) THEN [f |-> f, err |-> validate(f)]
    ELSE IF i = 0
    THEN LET total == Atoi(lines[1])
         IN  IF total.err # nil THEN [f |-> f, err |-> total.err]
             ELSE unmarshalLines(lines, 1, [f EXCEPT !.Count = total.v])
    ELSE LET t == unmarshalTrack(lines[i + 1])
         IN  IF t.err # nil THEN [f |-> f, err |-> t.err]
             ELSE unmarshalLines(lines, i + 1,
                                 [f EXCEPT !.Tracks = Append(@, t.track)])

\* UnmarshalText rejecting a count below minTracks as soon as it is read
UnmarshalText_CountFirst(text) ==
    LET lines == ScanLines(text)
        total == Atoi(lines[1])
    IN  IF lines # <<>> /\ total.err = nil /\ total.v < minTracks
        THEN [f |-> [Count |-> total.v, Tracks |-> <<>>, Flags |-> 0],
              err |-> errNotEnoughTracks]
        ELSE unmarshalLines(lines, 0, [Count |-> 0, Tracks |-> <<>>, Flags |-> 0])

\* the receiver is cleared first, whatever it held
UnmarshalText(text) ==
    unmarshalLines(ScanLines(text), 0, [Count |-> 0, Tracks |-> <<>>, Flags |-> 0])

(***************************************************************************)
(* The explored inputs.  A File is the well-formed base list of n tracks   *)
(* with at most MaxEdits fields overwritten; a text is the rendering of    *)
(* the same base list with at most MaxEdits tokens overwritten.            *)
(***************************************************************************)
FieldNames == <<"Number", "Start", "Type", "SectorSize", "Name", "Zero">>
NumericFields == {"Number", "Start", "Type", "SectorSize", "Zero"}

\* the type a well-formed list has at track k: data, audio, data, audio...;
\* an edit gives a track the other type, or 7, a value the package reserves
BaseType(k) == IF k \in {1, 3} THEN TypeData ELSE TypeAudio
OtherType(t) == IF t = TypeData THEN TypeAudio ELSE TypeData

BaseStart(k) == IF k = 1 THEN 0 ELSE IF k = 2 THEN 756 ELSE TrackThreeStart + (k - 3)

BaseTrack(k) ==
    [Number |-> k, Start |-> BaseStart(k), Type |-> BaseType(k),
     SectorSize |-> SectorSize, Name |-> <<"a">>, Zero |-> 0]

BaseFile(n) ==
    [Count |-> n, Tracks |-> [k \in 1..n |-> BaseTrack(k)], Flags |-> 0]

\* the values an edit may give to a field of track k (k = 0: the File's own
\* fields) of a File that is encoded: starts out of order, names that need
\* quoting or hold a quote, the trim flag
FieldAlts(n, k, field) ==
    CASE field = "Flags" -> <<NoWhitespace>>
      [] field = "Start" -> <<100000, 756>>
      [] field = "Name" -> << <<>>, <<"a", " ", "b">>, <<Quote, " ", "b">> >>
      [] OTHER -> <<>>

\* a token of a text with what it stands for: shape "int" is a decimal
\* integer of value val, "nonint" is no integer, "field" is a name field that
\* reads as the name val, "broken" is a name that is not one balanced field
IntToken(v) == [tok |-> FormatInt(v), shape |-> "int", val |-> v]
BadToken(c) == [tok |-> <<c>>, shape |-> "nonint", val |-> 0]
NameToken(t, sh, v) == [tok |-> t, shape |-> sh, val |-> v]

\* the tokens an edit may put in a field of line k (k = 0: the count line) of
\* a text that is decoded: a value that breaks a rule of validate, a token
\* that is no integer, a name that is not one field
TokenAlts(n, k, field) ==
    CASE field = "Count" -> <<BadToken("x"), IntToken(1), IntToken(maxTracks + 1),
                              IntToken(n + 1)>>
      [] field = "Number" -> <<BadToken("x"), IntToken(k + 1)>>
      [] field = "Start" -> <<IntToken(100000)>>
      [] field = "Type" -> <<IntToken(OtherType(BaseType(k))), IntToken(7)>>
      [] field = "SectorSize" -> <<IntToken(2048)>>
      [] field = "Name" -> <<NameToken(<<Quote, "a">>, "broken", <<>>),
                             NameToken(<<"a", " ", "b">>, "broken", <<>>)>>
      [] field = "Zero" -> <<BadToken("y"), IntToken(1)>>
      [] OTHER -> <<>>

\* an edit is <<k, i, j>>: field i of track k (k = 0: of the File) takes its
\* j-th alternative
TopFields == <<"Count", "Flags">>
EditField(e) == IF e[1] = 0 THEN TopFields[e[2]] ELSE FieldNames[e[2]]

\* the tracks an edit may touch: the three that have a rule of their own,
\* and the last one
EditableTracks(n) == {k \in 1..n : k <= 3 \/ k = n}

EditsOf(Alts(_, _, _), n) ==
    {e \in ({0} \cup EditableTracks(n)) \X (1..6) \X (1..4) :
        /\ e[1] = 0 => e[2] <= Len(TopFields)
        /\ e[3] <= Len(Alts(n, e[1], EditField(e)))}

\* edits are applied in increasing order, one per field at most
Before(d, e) ==
    \/ d[1] < e[1]
    \/ d[1] = e[1] /\ d[2] < e[2]

EditSeqs(E) ==
    UNION {{es \in [1..m -> E] : \A i \in 1..(m - 1) : Before(es[i], es[i + 1])} :
           m \in 0..MaxEdits}

ApplyEdit(Alts(_, _, _), n, x, e) ==
    LET alt == Alts(n, e[1], EditField(e))[e[3]]
    IN  IF e[1] = 0 THEN [x EXCEPT ![EditField(e)] = alt]
        ELSE [x EXCEPT !.Tracks[e[1]][EditField(e)] = alt]

RECURSIVE ApplyEdits(_, _, _, _, _)
ApplyEdits(Alts(_, _, _), n, x, es, i) ==
    IF i > Len(es) THEN x
    ELSE ApplyEdits(Alts, n, ApplyEdit(Alts, n, x, es[i]), es, i + 1)

FileOf(n, es) == ApplyEdits(FieldAlts, n, BaseFile(n), es, 1)

\* the base list as tokens: every number in decimal, the name as it is
BaseDoc(n) ==
    [Count |-> IntToken(n),
     Tracks |-> [k \in 1..n |->
                    [fld \in DOMAIN BaseTrack(k) |->
                        IF fld = "Name"
                        THEN NameToken(BaseTrack(k).Name, "field", BaseTrack(k).Name)
                        ELSE IntToken(BaseTrack(k)[fld])]]]

DocOf(n, es) == ApplyEdits(TokenAlts, n, BaseDoc(n), es, 1)

\* a line of a text: the six tokens separated by one space
RenderLine(line) ==
    line.Number.tok \o <<Space>> \o line.Start.tok \o <<Space>>
    \o line.Type.tok \o <<Space>> \o line.SectorSize.tok \o <<Space>>
    \o line.Name.tok \o <<Space>> \o line.Zero.tok \o <<Newline>>

RECURSIVE RenderLines(_, _)
RenderLines(lines, k) ==
    IF k > Len(lines) THEN <<>> ELSE RenderLine(lines[k]) \o RenderLines(lines, k + 1)

Render(doc) == doc.Count.tok \o <<Newline>> \o RenderLines(doc.Tracks, 1)

(***************************************************************************)
(* Package dreamcast: the IP.BIN boot metadata (IPBin.UnmarshalBinary).    *)
(* A buffer is its length, the text of the regions that are decoded and    *)
(* the bytes of its table of contents: 97 slots of four bytes, the slots   *)
(* past the leading ones all holding the same filler.                      *)
(***************************************************************************)
\* how many leading TOC slots of a buffer are chosen one by one
MaxSlots == 2

ipBinLength == 32768
lastSector == 549300
offsetTOC == 256
tocSlots == 97
pauseData == 150
preGap == 75
typeAudio == 1
typeData == 65

errIncorrectLength == NamedError("incorrect amount of bytes for IP.BIN")
\* hex.InvalidByteError and hex.ErrLength
hexInvalidByteError == NamedError("encoding/hex: invalid byte")
hexErrLength == NamedError("encoding/hex: odd length hex string")
\* the errors of fmt.Sscanf
errScanFormat == NamedError("input does not match format")
errScanInteger == NamedError("expected integer")
errScanEOF == NamedError("unexpected EOF")
\* *time.ParseError
timeParseError == NamedError("ParseError")
\* the run-time panic of an index expression whose index is out of range
panicIndexOutOfRange == NamedError("panic: runtime error: index out of range")

HexDigits == <<"0", "1", "2", "3", "4", "5", "6", "7", "8", "9",
               "A", "B", "C", "D", "E", "F">>
LowerHexDigits == <<"0", "1", "2", "3", "4", "5", "6", "7", "8", "9",
                    "a", "b", "c", "d", "e", "f">>
IsHexChar(c) == \E i \in 1..16 : HexDigits[i] = c \/ LowerHexDigits[i] = c
HexVal(c) == (CHOOSE i \in 1..16 : HexDigits[i] = c \/ LowerHexDigits[i] = c) - 1

RECURSIVE hexValue(_, _)
hexValue(s, acc) ==
    IF s = <<>> THEN acc ELSE hexValue(Tail(s), acc * 16 + HexVal(Head(s)))

\* hex.DecodeString followed by binary.BigEndian.Uint16 or Uint32: the
\* bytes read as one big-endian number
DecodeString(s) ==
    IF \E i \in DOMAIN s : ~IsHexChar(s[i])
    THEN [v |-> 0, err |-> hexInvalidByteError]
    ELSE IF Len(s) % 2 = 1 THEN [v |-> 0, err |-> hexErrLength]
    ELSE [v |-> hexValue(s, 0), err |-> nil]

RECURSIVE LeadingDigits(_)
LeadingDigits(s) ==
    IF s # <<>> /\ Head(s) \in DigitChars
    THEN <<Head(s)>> \o LeadingDigits(Tail(s))
    ELSE <<>>

Drop(s, n) == SubSeq(s, n + 1, Len(s))
GDROM == <<"G", "D", "-", "R", "O", "M">>

\* fmt.Sscanf(s, "GD-ROM%d/%d", &Disc, &TotalDiscs) on texts without a sign
\* or a space before a number: n operands are stored before err is returned
Sscanf(s) ==
    LET none == [Disc |-> 0, TotalDiscs |-> 0, n |-> 0, err |-> nil]
    IN  IF Len(s) < Len(GDROM) /\ s = SubSeq(GDROM, 1, Len(s))
        THEN [none EXCEPT !.err = errScanEOF]
        ELSE IF Len(s) < Len(GDROM) \/ SubSeq(s, 1, Len(GDROM)) # GDROM
        THEN [none EXCEPT !.err = errScanFormat]
        ELSE
        LET r1 == Drop(s, Len(GDROM))
            d1 == LeadingDigits(r1)
            r2 == Drop(r1, Len(d1))
            one == [none EXCEPT !.Disc = digitsValue(d1, 0), !.n = 1]
        IN  IF d1 = <<>>
            THEN [none EXCEPT !.err = IF r1 = <<>> THEN errScanEOF ELSE errScanInteger]
            ELSE IF r2 = <<>> THEN [one EXCEPT !.err = errScanEOF]
            ELSE IF Head(r2) # "/" THEN [one EXCEPT !.err = errScanFormat]
            ELSE
            LET r3 == Tail(r2)
                d2 == LeadingDigits(r3)
            IN  IF d2 = <<>>
                THEN [one EXCEPT !.err = IF r3 = <<>> THEN errScanEOF ELSE errScanInteger]
                ELSE [one EXCEPT !.TotalDiscs = digitsValue(d2, 0), !.n = 2]

IsLeap(y) == (y % 4 = 0 /\ y % 100 # 0) \/ y % 400 = 0
DaysIn(y, m) ==
    IF m = 2 THEN (IF IsLeap(y) THEN 29 ELSE 28)
    ELSE IF m \in {4, 6, 9, 11} THEN 30 ELSE 31

\* the zero time.Time
ZeroTime == [y |-> 1, m |-> 1, d |-> 1]

\* time.Parse("20060102", s)
Parse(s) ==
    IF Len(s) # 8 \/ \E i \in DOMAIN s : s[i] \notin DigitChars
    THEN [t |-> ZeroTime, err |-> timeParseError]
    ELSE LET y == digitsValue(SubSeq(s, 1, 4), 0)
             m == digitsValue(SubSeq(s, 5, 6), 0)
             d == digitsValue(SubSeq(s, 7, 8), 0)
         IN  IF m \in 1..12 /\ d \in 1..DaysIn(y, m)
             THEN [t |-> [y |-> y, m |-> m, d |-> d], err |-> nil]
             ELSE [t |-> ZeroTime, err |-> timeParseError]

\* b[off] for an offset inside the TOC slots
ByteAt(b, off) ==
    LET rel == off - (offsetTOC + 4)
        slot == rel \div 4
    IN  IF slot < Len(b.lead) THEN b.lead[slot + 1][(rel % 4) + 1]
        ELSE b.fill[(rel % 4) + 1]

\* Track.IsAudioTrack and Track.IsDataTrack of package dreamcast
IsAudioTrack(track) == track.Type = typeAudio
IsDataTrack(track) == track.Type = typeData

\* the Track that the loop builds of slot i
tocTrack(b, i) ==
    [Start |-> ByteAt(b, offsetTOC + 4 + i * 4)
               + ByteAt(b, offsetTOC + 5 + i * 4) * 256
               + ByteAt(b, offsetTOC + 6 + i * 4) * 65536
               - pauseData,
     Length |-> 0,
     Type |-> ByteAt(b, offsetTOC + 7 + i * 4)]

\* the loop breaks at slot i
tocBreak(b, i) == ~IsAudioTrack(tocTrack(b, i)) /\ ~IsDataTrack(tocTrack(b, i))

\* the loop over the 97 slots: the entries that are appended, which are
\* those of the slots before the first at which the loop breaks
scanTOC(b) ==
    LET n == IF \E i \in 0..(tocSlots - 1) : tocBreak(b, i)
             THEN CHOOSE i \in 0..(tocSlots - 1) :
                     tocBreak(b, i) /\ \A j \in 0..(i - 1) : ~tocBreak(b, j)
             ELSE tocSlots
    IN  [k \in 1..n |-> tocTrack(b, k - 1)]

\* the loop that sets every Length but the last, then the last Length
tocLengths(toc) ==
    [i \in 1..Len(toc) |->
        [toc[i] EXCEPT !.Length =
            IF i < Len(toc) THEN toc[i + 1].Start - toc[i].Start - pauseData
            ELSE lastSector - toc[i].Start - pauseData]]

\* the zero IPBin, new(IPBin)
NoBuffer ==
    [len |-> 0, HardwareID |-> <<>>, crc |-> <<>>, disc |-> <<>>,
     peripherals |-> <<>>, date |-> <<>>, lead |-> <<>>, fill |-> <<0, 0, 0, 0>>]
ZeroIPBin ==
    [bytes |-> NoBuffer, HardwareID |-> <<>>, CRC |-> 0, Disc |-> 0,
     TotalDiscs |-> 0, Peripherals |-> 0, ReleaseDate |-> ZeroTime, TOC |-> <<>>]

\* a variant that stores the buffer before it looks at its length
UnmarshalBinary_StoresFirst(ip, b) ==
    [ip |-> [ip EXCEPT !.bytes = b],
     err |-> IF b.len # ipBinLength THEN errIncorrectLength ELSE nil]

\* ip.UnmarshalBinary(b): the IPBin as the call leaves it and what the call
\* returns, the panic of the last statement included
UnmarshalBinary(ip, b) ==
    IF b.len # ipBinLength THEN [ip |-> ip, err |-> errIncorrectLength]
    ELSE
    LET ip1 == [ip EXCEPT !.bytes = b,
                          !.HardwareID = TrimRight(b.HardwareID, Space)]
        crc == DecodeString(b.crc)
    IN  IF crc.err # nil THEN [ip |-> ip1, err |-> crc.err]
        ELSE
        LET sc == Sscanf(b.disc)
            ip2 == [ip1 EXCEPT !.CRC = crc.v,
                               !.Disc = IF sc.n >= 1 THEN sc.Disc ELSE @,
                               !.TotalDiscs = IF sc.n >= 2 THEN sc.TotalDiscs ELSE @]
        IN  IF sc.err # nil THEN [ip |-> ip2, err |-> sc.err]
            ELSE
            LET per == DecodeString(<<"0">> \o b.peripherals)
            IN  IF per.err # nil THEN [ip |-> ip2, err |-> per.err]
                ELSE
                LET date == Parse(TrimRight(b.date, Space))
                    ip3 == [ip2 EXCEPT !.Peripherals = per.v,
                                       !.ReleaseDate = date.t]
                IN  IF date.err # nil THEN [ip |-> ip3, err |-> date.err]
                    ELSE
                    \* ip.TOC = append(ip.TOC, track), slot after slot
                    LET toc == ip.TOC \o scanTOC(b)
                    IN  IF Len(toc) = 0
                        THEN [ip |-> [ip3 EXCEPT !.TOC = toc],
                              err |-> panicIndexOutOfRange]
                        ELSE [ip |-> [ip3 EXCEPT !.TOC = tocLengths(toc)],
                              err |-> nil]

(***************************************************************************)
(* The buffers that are decoded.                                           *)
(***************************************************************************)
\* a data track at raw sector 45150, an audio track at raw sector 50000, an
\* unused slot, a data track at raw sector 0
SlotChoices == {<<94, 176, 0, 65>>, <<80, 195, 0, 1>>, <<0, 0, 0, 0>>, <<0, 0, 0, 65>>}
\* the filler is an unused slot, or an audio track so that all 97 slots count
FillChoices == {<<0, 0, 0, 0>>, <<80, 195, 0, 1>>}

GoodBuffer ==
    [len |-> ipBinLength,
     HardwareID |-> <<"S", "E", "G", "A", " ", " ">>,
     crc |-> <<"1", "A", "2", "b">>,
     disc |-> <<"G", "D", "-", "R", "O", "M", "1", "/", "2", " ", " ">>,
     peripherals |-> <<"0", "7", "9", "9", "A", "1", "0">>,
     date |-> <<"2", "0", "0", "0", "0", "2", "2", "9", " ", " ">>,
     lead |-> <<<<94, 176, 0, 65>>>>,
     fill |-> <<0, 0, 0, 0>>]

\* buffers of the right length with one region that does not decode
BadTextBuffers ==
    {[GoodBuffer EXCEPT !.crc = <<"1", "A", "2", "G">>],
     [GoodBuffer EXCEPT !.disc = <<"G", "D", "-", "R", "O", "M", "1", " ", " ">>],
     [GoodBuffer EXCEPT !.peripherals = <<"0", "7", "9", "9", "A", "1", " ">>],
     [GoodBuffer EXCEPT !.date = <<"2", "0", "0", "1", "0", "2", "2", "9", " ", " ">>]}

\* buffers that are one byte short, one byte long, or empty
BadLengthBuffers ==
    {[GoodBuffer EXCEPT !.len = n] : n \in {0, ipBinLength - 1, ipBinLength + 1}}

Leads == UNION {[1..n -> SlotChoices] : n \in 0..MaxSlots}

\* the buffers that are decoded: good texts and chosen slots, or one of the
\* buffers above
Buffers ==
    {[GoodBuffer EXCEPT !.lead = lead, !.fill = fill] :
        lead \in Leads, fill \in FillChoices}
    \cup BadTextBuffers \cup BadLengthBuffers

(***************************************************************************)
(* Package dreamcast: the Game, its Reader and its Writer.                 *)
(***************************************************************************)
\* the longest track list of a game that is read and written
MaxGameTracks == 5

\* the sectors that Game.readIPBin reads of the third track
ipBinSectors == 16
\* the bytes that Game.isRedump reads of an audio track
audioProbe == 16

errInvalidCueFile == NamedError("invalid cue file")
errInvalidGame == NamedError("invalid game")
errInvalidSize == NamedError("invalid track size")
errInconsistentAudioTracks == NamedError("inconsistent audio tracks")
\* io.EOF, as io.CopyN returns it of a stream that ends early
errEOF == NamedError("EOF")
\* *os.PathError with ENOENT, of FindGDIFile and FindCueFile
errNotExist == NamedError("no such file or directory")
\* any other error of the Reader or of the Writer
errIO == NamedError("input/output error")

\* Track.IsAudioTrack and Track.IsDataTrack of package gdi
gdiIsAudioTrack(track) == track.Type = TypeAudio
gdiIsDataTrack(track) == track.Type = TypeData
\* File.IsValid of package gdi
IsValid(file) == validate(file) = nil
\* File.Copy of package gdi: a File of its own, with tracks of its own;
\* shared tells whether a store to the copy is a store to the original
Copy(file) == [file |-> file, shared |-> FALSE]

Pad2(n) == IF n < 10 THEN <<"0">> \o FormatUint(n) ELSE FormatUint(n)

\* GDemuTrackName: fmt.Sprintf("track%02d.raw", ...) or "track%02d.bin"
GDemuTrackName(track) ==
    IF gdiIsAudioTrack(track)
    THEN <<"t", "r", "a", "c", "k">> \o Pad2(track.Number) \o <<".", "r", "a", "w">>
    ELSE IF gdiIsDataTrack(track)
    THEN <<"t", "r", "a", "c", "k">> \o Pad2(track.Number) \o <<".", "b", "i", "n">>
    ELSE track.Name

\* writer.Config().TrackRename(track), for a TrackRename that is not nil
TrackRename(cfg, track) ==
    IF cfg.TrackRename = "GDemuTrackName" THEN GDemuTrackName(track) ELSE track.Name

Min(a, b) == IF a < b THEN a ELSE b

\* the decision at the end of Game.isRedump
isRedumpResult_AnyZero(audioTracks, redumpTracks) ==
    [isRedump |-> redumpTracks > 0, err |-> nil]

isRedumpResult(audioTracks, redumpTracks) ==
    IF redumpTracks > 0 /\ redumpTracks < audioTracks
    THEN [isRedump |-> FALSE, err |-> errInconsistentAudioTracks]
    ELSE [isRedump |-> redumpTracks = audioTracks, err |-> nil]

\* the switch of Game.Write for a redump-style game, on a source of size
\* bytes: copy bytes go to dst, skip bytes are discarded after them, and
\* the Start of the track's copy grows by start; a source that ends early
\* gives what it has and then err
redumpAdjust_NoSkip(track, count, size) ==
    [copy |-> 0, skip |-> 0,
     start |-> IF gdiIsAudioTrack(track) THEN pauseData ELSE 0, err |-> nil]

redumpAdjust_NoFallthrough(track, count, size) ==
    IF gdiIsDataTrack(track) /\ track.Number = count /\ track.Number > 3
    THEN [copy |-> Min(size, preGap * SectorSize), skip |-> 0,
          start |-> preGap,
          err |-> IF size < preGap * SectorSize THEN errEOF ELSE nil]
    ELSE [copy |-> 0, skip |-> 0, start |-> 0, err |-> nil]

redumpAdjust(track, count, size) ==
    IF gdiIsDataTrack(track) /\ track.Number = count /\ track.Number > 3
    THEN IF size < preGap * SectorSize
         THEN [copy |-> size, skip |-> 0, start |-> 0, err |-> errEOF]
         ELSE IF size - preGap * SectorSize < pauseData * SectorSize
         THEN [copy |-> preGap * SectorSize,
               skip |-> size - preGap * SectorSize,
               start |-> preGap, err |-> errEOF]
         ELSE [copy |-> preGap * SectorSize, skip |-> pauseData * SectorSize,
               start |-> preGap + pauseData, err |-> nil]
    ELSE IF gdiIsAudioTrack(track)
    THEN IF size < pauseData * SectorSize
         THEN [copy |-> 0, skip |-> size, start |-> 0, err |-> errEOF]
         ELSE [copy |-> 0, skip |-> pauseData * SectorSize,
               start |-> pauseData, err |-> nil]
    ELSE [copy |-> 0, skip |-> 0, start |-> 0, err |-> nil]

\* gdiFile.Tracks[i].Start += d, gdiFile being what Copy returned of the
\* Game gm's track list: the Game and the copy after the store
addStart_InPlace(gm, o, i, d) ==
    [g |-> [gm EXCEPT !.gdiFile.Tracks[i].Start = @ + d],
     out |-> [o EXCEPT !.file.Tracks[i].Start = @ + d]]

addStart(gm, o, i, d) ==
    LET file == [o.file EXCEPT !.Tracks[i].Start = @ + d]
    IN  [g |-> IF o.shared THEN [gm EXCEPT !.gdiFile = file] ELSE gm,
         out |-> [o EXCEPT !.file = file]]

\* gdiFile.Tracks[i].Name = name
setName(gm, o, i, name) ==
    LET file == [o.file EXCEPT !.Tracks[i].Name = name]
    IN  [g |-> IF o.shared THEN [gm EXCEPT !.gdiFile = file] ELSE gm,
         out |-> [o EXCEPT !.file = file]]

\* gdiFile.Flags = flags
setFlags(gm, o, flags) ==
    LET file == [o.file EXCEPT !.Flags = flags]
    IN  [g |-> IF o.shared THEN [gm EXCEPT !.gdiFile = file] ELSE gm,
         out |-> [o EXCEPT !.file = file]]

\* if i > 0 { dst.Close() }, i counting from 0: the streams that stay open
\* when the tracks' destination is closed before track i's is created
closeDst_Never(ss, i) == ss

closeDst(ss, i) ==
    IF i > 1 THEN {s \in ss : ~(s.op = "Write" /\ s.kind = "dst")} ELSE ss

(***************************************************************************)
(* The games that are read: a valid track list of 3 to MaxGameTracks       *)
(* tracks whose files hold 300 sectors each, a descriptor that encodes the *)
(* list, and at most one thing out of the ordinary.                        *)
(***************************************************************************)
GameTrack(k, t) ==
    [Number |-> k, Start |-> BaseStart(k), Type |-> t,
     SectorSize |-> SectorSize, Name |-> <<"t", Digits[k + 1]>>, Zero |-> 0]

GameFile(n, types) ==
    [Count |-> n,
     Tracks |-> [k \in 1..n |-> GameTrack(k, IF k <= 3 THEN BaseType(k) ELSE types[k])],
     Flags |-> 0]

NoFault == [op |-> "none", track |-> 0]
DiscGDI == <<"d", ".", "g", "d", "i">>
DiscCue == <<"d", ".", "c", "u", "e">>

BaseConfig ==
    [GDIFile |-> DiscGDI, CueFile |-> <<>>, TrackRename |-> "nil",
     TrimWhitespace |-> FALSE]

\* zeros[k]: the first 16 bytes of track k's file are all zero
BaseEnv(layout, zeros) ==
    [layout |-> layout,
     found |-> "gdi",
     desc |-> MarshalText(layout).b,
     ipbin |-> GoodBuffer,
     sizes |-> [k \in 1..layout.Count |-> 300 * SectorSize],
     zeros |-> zeros,
     fault |-> NoFault,
     cfg |-> BaseConfig]

\* file sizes out of the ordinary: empty, too short for the 150 sectors that
\* are skipped, too short for the 225 sectors of a last data track, and not
\* a whole number of sectors
SizeChoices ==
    {0, 50 * SectorSize, 100 * SectorSize, 200 * SectorSize, 300 * SectorSize + 1}

TrackFaults == {"FileSize", "isRedump.OpenFile", "OpenFile", "CreateFile", "Copy"}

\* the tracks whose file may have a size out of the ordinary, and those at
\* which a call of the Reader or of the Writer may fail
OddSizeTracks(n) == {2, 3, n}
FaultTracks(n) == {1, 2, n}

Deviations(e) ==
    LET n == e.layout.Count
    IN  {e}
        \cup {[e EXCEPT !.found = v] : v \in {"cue", "none", "error"}}
        \cup {[e EXCEPT !.desc = <<"x", Newline>>]}
        \cup {[e EXCEPT !.ipbin = b] :
                b \in {[GoodBuffer EXCEPT !.lead = <<>>],
                       [GoodBuffer EXCEPT !.crc = <<"1", "A", "2", "G">>]}}
        \cup {[e EXCEPT !.sizes[k] = s] : k \in OddSizeTracks(n), s \in SizeChoices}
        \cup {[e EXCEPT !.fault = [op |-> op, track |-> k]] :
                op \in TrackFaults \ {"isRedump.OpenFile"}, k \in FaultTracks(n)}
        \cup {[e EXCEPT !.fault = [op |-> "isRedump.OpenFile", track |-> k]] :
                k \in {j \in FaultTracks(n) : gdiIsAudioTrack(e.layout.Tracks[j])}}
        \cup {[e EXCEPT !.fault = [op |-> op, track |-> 0]] :
                op \in {"readIPBin.OpenFile", "writeGDIFile.CreateFile",
                        "writeGDIFile.Write"}}
        \cup {[e EXCEPT !.cfg.GDIFile = <<>>],
              [e EXCEPT !.cfg.GDIFile = <<>>, !.cfg.CueFile = DiscCue],
              [e EXCEPT !.cfg.TrackRename = "GDemuTrackName"],
              [e EXCEPT !.cfg.TrimWhitespace = TRUE]}

\* the track list that Game.newFromCueFile builds of a cue sheet that lists
\* the layout's tracks, one file each: every Start is the running count of
\* sectors, which track 2 sets to TrackThreeStart
RECURSIVE cueTracks(_, _, _, _)
cueTracks(e, k, start, tracks) ==
    IF k > e.layout.Count THEN [tracks |-> tracks, err |-> nil]
    ELSE LET t == e.layout.Tracks[k]
             track == [Number |-> t.Number, Start |-> start, Type |-> t.Type,
                       SectorSize |-> SectorSize, Name |-> t.Name, Zero |-> 0]
         IN  IF t.Number = 2
             THEN cueTracks(e, k + 1, TrackThreeStart, Append(tracks, track))
             ELSE IF e.fault = [op |-> "FileSize", track |-> k]
             THEN [tracks |-> tracks, err |-> errIO]
             ELSE IF e.sizes[k] % SectorSize # 0
             THEN [tracks |-> tracks, err |-> errInvalidSize]
             ELSE cueTracks(e, k + 1, start + (e.sizes[k] \div SectorSize),
                            Append(tracks, track))

\* Game.isValid
RECURSIVE isValidSizes(_, _, _)
isValidSizes(e, file, k) ==
    IF k > Len(file.Tracks) THEN nil
    ELSE IF e.fault = [op |-> "FileSize", track |-> k] THEN errIO
    ELSE IF e.sizes[k] % SectorSize # 0 THEN errInvalidSize
    ELSE isValidSizes(e, file, k + 1)

isValid(e, gm) ==
    IF ~IsValid(gm.gdiFile) THEN errInvalidGame ELSE isValidSizes(e, gm.gdiFile, 1)

\* the next audio track after track i, or 0: the loop of Game.isRedump
\* passes over the others
NextAudio(file, i) ==
    IF \E k \in (i + 1)..Len(file.Tracks) : gdiIsAudioTrack(file.Tracks[k])
    THEN CHOOSE k \in (i + 1)..Len(file.Tracks) :
            /\ gdiIsAudioTrack(file.Tracks[k])
            /\ \A j \in (i + 1)..(k - 1) : ~gdiIsAudioTrack(file.Tracks[j])
    ELSE 0

(***************************************************************************)
(* The state: a caller holds a File x and encodes it, then decodes the     *)
(* bytes into a fresh File f; or it is handed a text and decodes it.       *)
(***************************************************************************)
VARIABLES
    input,  \* "File" or "text": what the caller was handed
    x,      \* the File that MarshalText is called on
    doc,    \* the tokens the handed text was written from
    text,   \* the bytes: MarshalText's result, UnmarshalText's argument
    f,      \* the File that UnmarshalText is called on
    err,    \* the error the last call returned
    last,   \* the call that returned last
    pc,     \* the call the caller makes next
    ip,     \* the IPBin that UnmarshalBinary is called on
    ipBuf,  \* the buffer of the last call of UnmarshalBinary
    ipPrev, \* the IPBin as it was when the last call was made
    ipErr,  \* what the last call of UnmarshalBinary returned
    ipPc,   \* "new", "decoded" or "done"; "idle" when nothing is decoded
    env,      \* what the Reader holds, what fails, the Writer's configuration
    game,     \* the Game
    gPc,      \* where NewGame or Game.Write is; "idle" when no game is read
    gErr,     \* the error of the operation that returned last
    returned, \* the operations that have returned
    streams,  \* the streams that are open
    wr,       \* the local variables of Game.isRedump and Game.Write
    written,  \* the byte ranges copied to a destination, in order
    created,  \* the names of the files created, in order
    emitted   \* the descriptor as writeGDIFile wrote it

codecVars == <<input, x, doc, text, f, err, last, pc>>
ipVars == <<ip, ipBuf, ipPrev, ipErr, ipPc>>
gameVars == <<env, game, gPc, gErr, returned, streams, wr, written, created, emitted>>
vars == <<codecVars, ipVars, gameVars>>

ZeroFile == [Count |-> 0, Tracks |-> <<>>, Flags |-> 0]
NoDoc == [Count |-> IntToken(0), Tracks |-> <<>>]

\* no IPBin is decoded
IPBinIdle ==
    /\ ip = ZeroIPBin
    /\ ipBuf = NoBuffer
    /\ ipPrev = ZeroIPBin
    /\ ipErr = nil
    /\ ipPc = "idle"

ZeroGame == [GDIFile |-> <<>>, CueFile |-> <<>>, IPBin |-> ZeroIPBin, gdiFile |-> ZeroFile]
ZeroWrite ==
    [i |-> 0, audioTracks |-> 0, redumpTracks |-> 0, isRedump |-> FALSE,
     redumpErr |-> nil, out |-> Copy(ZeroFile), pos |-> 0, failedAt |-> "none"]

\* no game is read or written
GameIdle ==
    /\ env = BaseEnv(GameFile(minTracks, <<>>), [k \in 1..minTracks |-> FALSE])
    /\ game = ZeroGame
    /\ gPc = "idle"
    /\ gErr = nil
    /\ returned = {}
    /\ streams = {}
    /\ wr = ZeroWrite
    /\ written = <<>>
    /\ created = <<>>
    /\ emitted = <<>>

Init ==
    /\ \/ /\ input = "File"
          /\ \E n \in 0..MaxTracks : \E es \in EditSeqs(EditsOf(FieldAlts, n)) :
                x = FileOf(n, es)
          /\ doc = NoDoc
          /\ text = <<>>
          /\ pc = "MarshalText"
       \/ /\ input = "text"
          /\ x = ZeroFile
          /\ \E n \in 0..MaxTracks : \E es \in EditSeqs(EditsOf(TokenAlts, n)) :
                doc = DocOf(n, es)
          /\ text = Render(doc)
          /\ pc = "UnmarshalText"
    /\ f = ZeroFile
    /\ err = nil
    /\ last = "none"
    /\ IPBinIdle
    /\ GameIdle

\* b, err := x.MarshalText(); the bytes are decoded next when there are any
DoMarshalText ==
    /\ pc = "MarshalText"
    /\ LET r == MarshalText(x)
       IN  /\ text' = r.b
           /\ err' = r.err
           /\ pc' = IF r.err = nil THEN "UnmarshalText" ELSE "done"
    /\ last' = "MarshalText"
    /\ UNCHANGED <<input, x, doc, f>>
    /\ UNCHANGED <<ipVars, gameVars>>

\* err := f.UnmarshalText(text); a caller that was handed the text encodes
\* the File it got next
DoUnmarshalText ==
    /\ pc = "UnmarshalText"
    /\ LET r == UnmarshalText(text)
       IN  /\ f' = r.f
           /\ err' = r.err
    /\ last' = "UnmarshalText"
    /\ pc' = IF input = "text" THEN "MarshalDecoded" ELSE "done"
    /\ UNCHANGED <<input, x, doc, text>>
    /\ UNCHANGED <<ipVars, gameVars>>

\* b, err := f.MarshalText(): the receiver is passed by value, as the File is
\* after the decode, whatever the decode returned
DoMarshalDecoded ==
    /\ pc = "MarshalDecoded"
    /\ x' = f
    /\ LET r == MarshalText(f)
       IN  /\ text' = r.b
           /\ err' = r.err
    /\ last' = "MarshalText"
    /\ pc' = "done"
    /\ UNCHANGED <<input, doc, f>>
    /\ UNCHANGED <<ipVars, gameVars>>

Next == DoMarshalText \/ DoUnmarshalText \/ DoMarshalDecoded

Spec == Init /\ [][Next]_vars

TypeOK ==
    /\ input \in {"File", "text"}
    /\ last \in {"none", "MarshalText", "UnmarshalText"}
    /\ pc \in {"MarshalText", "UnmarshalText", "MarshalDecoded", "done"}

(***************************************************************************)
(* What the handed text stands for, read off its tokens.                   *)
(***************************************************************************)
LineWellFormed(line) ==
    /\ line.Name.shape = "field"
    /\ \A fld \in NumericFields : line[fld].shape = "int"

DocWellFormed(d) ==
    /\ d.Count.shape = "int"
    /\ \A k \in DOMAIN d.Tracks : LineWellFormed(d.Tracks[k])

\* the File a well-formed text describes
DocFile(d) ==
    [Count |-> d.Count.val,
     Tracks |-> [k \in DOMAIN d.Tracks |->
                    [fld \in DOMAIN d.Tracks[k] |-> d.Tracks[k][fld].val]],
     Flags |-> 0]

Decoded == last = "UnmarshalText" /\ input = "text"
DecodedCleanly == Decoded /\ DocWellFormed(doc)
Encoded == last = "MarshalText"

(***************************************************************************)
(* The validation rules as the specification lists them.                   *)
(***************************************************************************)
ValidationErrors ==
    {errNotEnoughTracks, errTooManyTracks, errInconsistentTracks,
     errInvalidStart, errInvalidType, errNonContinuousTracks,
     errInvalidSectorSize, errFieldNotZero}

ParseErrorNames == {"errInvalidTrack", "NumError"}

\* the rule set of the data model
Conditions(g) ==
    /\ g.Count >= 3
    /\ g.Count <= 99
    /\ Len(g.Tracks) = g.Count
    /\ g.Tracks[1].Type = 4
    /\ g.Tracks[2].Type = 0
    /\ g.Tracks[3].Type = 4
    /\ g.Tracks[3].Start = 45000
    /\ \A i \in 1..Len(g.Tracks) :
          /\ g.Tracks[i].SectorSize = 2352
          /\ g.Tracks[i].Zero = 0
          /\ g.Tracks[i].Number = i

\* the rules about the list as a whole, in the order of the check
ListRules(g) ==
    <<[broken |-> g.Count < 3, error |-> errNotEnoughTracks],
      [broken |-> g.Count > 99, error |-> errTooManyTracks],
      [broken |-> Len(g.Tracks) # g.Count, error |-> errInconsistentTracks]>>

\* the rules about the k-th track, in the order of the check
TrackRules(t, k) ==
    <<[broken |-> k = 3 /\ t.Start # 45000, error |-> errInvalidStart],
      [broken |-> (k \in {1, 3} /\ t.Type # 4) \/ (k = 2 /\ t.Type # 0),
       error |-> errInvalidType],
      [broken |-> t.Number # k, error |-> errNonContinuousTracks],
      [broken |-> t.SectorSize # 2352, error |-> errInvalidSectorSize],
      [broken |-> t.Zero # 0, error |-> errFieldNotZero]>>

\* all rules in the fixed order: the list's, then every track's in turn
Rules(g) ==
    [j \in 1..(3 + 5 * Len(g.Tracks)) |->
        IF j <= 3 THEN ListRules(g)[j]
        ELSE LET k == ((j - 4) \div 5) + 1
             IN  TrackRules(g.Tracks[k], k)[((j - 4) % 5) + 1]]

Broken(g) == LET r == Rules(g) IN {j \in DOMAIN r : r[j].broken}
BrokenErrors(g) == LET r == Rules(g) IN {r[j].error : j \in {i \in DOMAIN r : r[i].broken}}
FirstBroken(g) == LET b == Broken(g) IN CHOOSE j \in b : \A i \in b : j <= i

C3_NamedError ==
    DecodedCleanly =>
        LET errors == BrokenErrors(DocFile(doc))
        IN  errors # {} => err \in errors

C3_Witness ==
    /\ DecodedCleanly
    /\ BrokenErrors(DocFile(doc)) = {errInvalidStart}
    /\ err = errInvalidStart

(***************************************************************************)
(* C4: when a File breaks several rules, validate reports the one that     *)
(* comes first in the fixed order: count below 3, count above 99, count    *)
(* and length differ, then track by track (track-3 start, type by          *)
(* position, numbering, sector size, reserved field); an earlier track     *)
(* wins over a later one.                                                  *)
(***************************************************************************)
FirstBrokenError(g) == Rules(g)[FirstBroken(g)].error

C4_FirstInOrder ==
    /\ Encoded /\ Broken(x) # {} => err = FirstBrokenError(x)
    /\ DecodedCleanly =>
          LET g == DocFile(doc)
          IN  Broken(g) # {} => err = FirstBrokenError(g)

\* two rules broken: the reserved field of track 1, the type of track 2
C4_Witness ==
    /\ Encoded
    /\ Cardinality(Broken(x)) = 2
    /\ Len(x.Tracks) >= 2
    /\ x.Tracks[1].Zero # 0
    /\ x.Tracks[2].Type # 0
    /\ err = errFieldNotZero

(***************************************************************************)
(* C8: UnmarshalText stops at the first malformed line in line order: a    *)
(* count that is no integer gives the conversion error of the count; a     *)
(* track line that is not six balanced fields gives errInvalidTrack; a     *)
(* track line of six fields gives the conversion error of its first field  *)
(* that is no integer.  The parse error is returned whatever validation    *)
(* rule the text breaks as well.                                           *)
(***************************************************************************)
FirstMalformedLine(d) ==
    CHOOSE k \in DOMAIN d.Tracks :
        /\ ~LineWellFormed(d.Tracks[k])
        /\ \A j \in 1..(k - 1) : LineWellFormed(d.Tracks[j])

\* the numeric fields in the order in which a line holds them
NumericOrder == <<"Number", "Start", "Type", "SectorSize", "Zero">>

FirstNonInteger(line) ==
    LET i == CHOOSE i \in 1..5 :
                 /\ line[NumericOrder[i]].shape # "int"
                 /\ \A j \in 1..(i - 1) : line[NumericOrder[j]].shape = "int"
    IN  line[NumericOrder[i]].tok

ExpectedParseError(d) ==
    IF d.Count.shape # "int" THEN NumError(d.Count.tok)
    ELSE LET line == d.Tracks[FirstMalformedLine(d)]
         IN  IF line.Name.shape # "field" THEN errInvalidTrack
             ELSE NumError(FirstNonInteger(line))

C8_FirstMalformedLine ==
    Decoded /\ ~DocWellFormed(doc) => err = ExpectedParseError(doc)

\* a declared count of 1 and an unterminated quote on a later line
C8_Witness ==
    /\ Decoded
    /\ doc.Count.shape = "int"
    /\ doc.Count.val = 1
    /\ \E k \in DOMAIN doc.Tracks : doc.Tracks[k].Name.tok = <<Quote, "a">>
    /\ err = errInvalidTrack

(***************************************************************************)
(* C1: for every File x that passes validate, whatever its track names and *)
(* starts, MarshalText succeeds and UnmarshalText of its output succeeds   *)
(* and yields the Count and the Tracks of x.                               *)
(***************************************************************************)
RoundTripped == last = "UnmarshalText" /\ input = "File"

C1_RoundTrip ==
    input = "File" /\ validate(x) = nil =>
        /\ Encoded => err = nil
        /\ RoundTripped => err = nil /\ f.Count = x.Count /\ f.Tracks = x.Tracks

(***************************************************************************)
(* C5: decode is all-or-nothing: whenever UnmarshalText returns an error,  *)
(* the receiving File has Count 0 and no tracks.                           *)
(***************************************************************************)
C5_NoPartialState ==
    last = "UnmarshalText" /\ err # nil => f.Count = 0 /\ f.Tracks = <<>>

(***************************************************************************)
(* C6: without the trim flag every track line of MarshalText's output      *)
(* right-aligns its number to the longest number of the list and its       *)
(* start to the longest start of the list, so the columns of all lines     *)
(* are equally wide; with the trim flag no column is padded.               *)
(***************************************************************************)
Longest(S) == CHOOSE w \in S : \A v \in S : v <= w

RightAligned(w, s) == [i \in 1..(w - Len(s)) |-> Space] \o s

\* the line starts with the two columns in widths nw and sw
ColumnsAre(line, nw, sw, track) ==
    LET head == RightAligned(nw, FormatInt(track.Number)) \o <<Space>>
                \o RightAligned(sw, FormatInt(track.Start)) \o <<Space>>
    IN  /\ Len(line) >= Len(head)
        /\ SubSeq(line, 1, Len(head)) = head

C6_AlignedColumns ==
    Encoded /\ err = nil =>
        LET lines == ScanLines(text)
            nw == Longest({Len(FormatInt(x.Tracks[k].Number)) : k \in DOMAIN x.Tracks})
            sw == Longest({Len(FormatInt(x.Tracks[k].Start)) : k \in DOMAIN x.Tracks})
        IN  \A k \in DOMAIN x.Tracks :
                IF x.Flags = 0
                THEN ColumnsAre(lines[k + 1], nw, sw, x.Tracks[k])
                ELSE ColumnsAre(lines[k + 1], 1, 1, x.Tracks[k])

(***************************************************************************)
(* C7: MarshalText wraps a track name in double quotes if and only if the  *)
(* name holds a space, and a name so quoted decodes back through           *)
(* UnmarshalText to the same name without the quotes.                      *)
(***************************************************************************)
EndsWith(line, tail) ==
    /\ Len(line) >= Len(tail)
    /\ SubSeq(line, Len(line) - Len(tail) + 1, Len(line)) = tail

HasSpace(name) == \E i \in DOMAIN name : name[i] = Space

C7_QuotedIffSpace ==
    /\ Encoded /\ err = nil =>
          \A k \in DOMAIN x.Tracks :
              LET name == x.Tracks[k].Name
                  field == IF HasSpace(name) THEN <<Quote>> \o name \o <<Quote>>
                           ELSE name
              IN  EndsWith(ScanLines(text)[k + 1],
                           <<Space>> \o field \o <<Space>> \o FormatInt(x.Tracks[k].Zero))
    /\ RoundTripped =>
          \A k \in DOMAIN x.Tracks :
              HasSpace(x.Tracks[k].Name) =>
                  /\ err = nil
                  /\ f.Tracks[k].Name = x.Tracks[k].Name

(***************************************************************************)
(* C9: a track type other than 0 (audio) and 4 (data) passes the numeric   *)
(* parse and is rejected by validation, at whatever position the track is, *)
(* tracks 4 and above included.                                            *)
(***************************************************************************)
C9_ReservedTypeRejected ==
    DecodedCleanly
    /\ (\E k \in DOMAIN doc.Tracks : doc.Tracks[k].Type.val \notin {0, 4})
    => err \in ValidationErrors

(***************************************************************************)
(* C10: decoding a track list in which a track starts at a lower sector    *)
(* than the track before it fails with the overlapping-tracks error.       *)
(***************************************************************************)
StartsGoBackwards(g) ==
    \E k \in 2..Len(g.Tracks) : g.Tracks[k].Start < g.Tracks[k - 1].Start

\* stated for the lists that break no rule of validate, as the test's does
C10_OverlappingTracks ==
    DecodedCleanly /\ Conditions(DocFile(doc)) /\ StartsGoBackwards(DocFile(doc))
    => err = errOverlappingTracks

(***************************************************************************)
(* Decoding IP.BIN: a new IPBin decodes a buffer, as Game.readIPBin has    *)
(* it do, and the same IPBin may then be handed a second buffer.           *)
(***************************************************************************)
\* no File is encoded or decoded
CodecIdle ==
    /\ input = "File"
    /\ x = ZeroFile
    /\ doc = NoDoc
    /\ text = <<>>
    /\ f = ZeroFile
    /\ err = nil
    /\ last = "none"
    /\ pc = "done"

InitIPBin ==
    /\ CodecIdle
    /\ GameIdle
    /\ ip = ZeroIPBin
    /\ ipBuf = NoBuffer
    /\ ipPrev = ZeroIPBin
    /\ ipErr = nil
    /\ ipPc = "new"

\* g.IPBin = new(IPBin); err := g.IPBin.UnmarshalBinary(b)
DoUnmarshalBinary ==
    /\ ipPc = "new"
    /\ \E b \in Buffers :
          LET r == UnmarshalBinary(ip, b)
          IN  /\ ip' = r.ip
              /\ ipErr' = r.err
              /\ ipBuf' = b
    /\ ipPrev' = ip
    /\ ipPc' = "decoded"
    /\ UNCHANGED <<codecVars, gameVars>>

\* err := ip.UnmarshalBinary(b) on the IPBin of the call before, unless that
\* call ended the program
DoUnmarshalBinaryAgain ==
    /\ ipPc = "decoded"
    /\ ipErr # panicIndexOutOfRange
    /\ \E b \in Buffers :
          LET r == UnmarshalBinary(ip, b)
          IN  /\ ip' = r.ip
              /\ ipErr' = r.err
              /\ ipBuf' = b
    /\ ipPrev' = ip
    /\ ipPc' = "done"
    /\ UNCHANGED <<codecVars, gameVars>>

NextIPBin == DoUnmarshalBinary \/ DoUnmarshalBinaryAgain

SpecIPBin == InitIPBin /\ [][NextIPBin]_vars

\* UnmarshalBinary has returned or panicked
Called == ipPc \in {"decoded", "done"}

(***************************************************************************)
(* C11: UnmarshalBinary on a buffer whose length is not 32768 returns an   *)
(* error at once and leaves every field of the IPBin, its raw bytes and    *)
(* its TOC included, as it was.                                            *)
(***************************************************************************)
C11_WrongLengthNoChange ==
    Called /\ ipBuf.len # 32768
    => /\ ipErr = errIncorrectLength
       /\ ip = ipPrev

\* an IPBin that holds a decoded TOC is handed a buffer of a wrong length
C11_Witness ==
    /\ ipPc = "done"
    /\ ipBuf.len = 32767
    /\ ipPrev.TOC # <<>>
    /\ ipPrev.bytes # ipBuf
    /\ ip = ipPrev
    /\ ipErr = errIncorrectLength

(***************************************************************************)
(* C12: after a successful UnmarshalBinary the TOC holds, in slot order,   *)
(* exactly the entries before the first of the 97 slots whose type is      *)
(* neither audio nor data; each Start is the raw 24-bit start less 150,    *)
(* each Length but the last is the next Start - Start - 150, and the last  *)
(* Length is 0x861b4 - Start - 150.                                        *)
(***************************************************************************)
Slot(b, i) == IF i < Len(b.lead) THEN b.lead[i + 1] ELSE b.fill
SlotCounts(b, i) == Slot(b, i)[4] \in {1, 65}
RawStart(b, i) == Slot(b, i)[1] + 256 * Slot(b, i)[2] + 65536 * Slot(b, i)[3]
\* the number of slots before the first that is neither audio nor data
Leading(b) ==
    IF \A i \in 0..96 : SlotCounts(b, i) THEN 97
    ELSE CHOOSE i \in 0..96 :
            ~SlotCounts(b, i) /\ \A j \in 0..(i - 1) : SlotCounts(b, j)
ExpectedTOC(b) ==
    [k \in 1..Leading(b) |->
        [Start |-> RawStart(b, k - 1) - 150,
         Type |-> Slot(b, k - 1)[4],
         Length |-> IF k < Leading(b)
                    THEN (RawStart(b, k) - 150) - (RawStart(b, k - 1) - 150) - 150
                    ELSE 549300 - (RawStart(b, k - 1) - 150) - 150]]

C12_TOCFromBuffer ==
    Called /\ ipErr = nil => ip.TOC = ExpectedTOC(ipBuf)

(***************************************************************************)
(* C20: UnmarshalBinary never indexes outside the TOC: on every buffer of  *)
(* 32768 bytes whose text fields decode, one whose first TOC slot is       *)
(* neither audio nor data included, it returns a result or an error and    *)
(* does not fault.                                                         *)
(***************************************************************************)
TextsDecode(b) ==
    /\ DecodeString(b.crc).err = nil
    /\ Sscanf(b.disc).err = nil
    /\ DecodeString(<<"0">> \o b.peripherals).err = nil
    /\ Parse(TrimRight(b.date, Space)).err = nil

C20_NoFault ==
    Called /\ ipBuf.len = 32768 /\ TextsDecode(ipBuf)
    => ipErr # panicIndexOutOfRange

(***************************************************************************)
(* Reading and writing a game: NewGame reads the descriptor and IP.BIN,    *)
(* then Game.Write decides whether the game is redump-style (Game.isRedump)*)
(* and copies the tracks one by one, then writes the descriptor            *)
(* (writeGDIFile).  Every step of an operation ends at a call that opens,  *)
(* creates or closes a stream, or at its return.                           *)
(***************************************************************************)
InitGame ==
    /\ CodecIdle
    /\ IPBinIdle
    /\ \E n \in minTracks..MaxGameTracks :
         \E types \in [4..n -> {TypeAudio, TypeData}] :
           LET layout == GameFile(n, types)
               audio == {k \in 1..n : gdiIsAudioTrack(layout.Tracks[k])}
           IN  \E zero \in SUBSET audio :
                 env \in Deviations(BaseEnv(layout, [k \in 1..n |-> k \in zero]))
    /\ game = ZeroGame
    /\ gPc = "NewGame"
    /\ gErr = nil
    /\ returned = {}
    /\ streams = {}
    /\ wr = ZeroWrite
    /\ written = <<>>
    /\ created = <<>>
    /\ emitted = <<>>

Stream(op, kind, track) == [op |-> op, kind |-> kind, track |-> track]
Fault(op, track) == env.fault = [op |-> op, track |-> track]

\* the streams that stay open when the deferred Close calls of ops have run
AfterDefers(ops) == {s \in streams : s.op \notin ops}

\* NewGame up to the call of readIPBin: FindGDIFile, and ReadAll and
\* UnmarshalText of the stream it returns; or, with no GDI file, all of
\* newFromCueFile.  Neither stream is closed.
NewGameDescriptor ==
    /\ gPc = "NewGame"
    /\ \/ /\ env.found = "error"
          /\ gErr' = errIO
          /\ gPc' = "failed"
          /\ returned' = returned \cup {"NewGame"}
          /\ UNCHANGED <<game, streams>>
       \/ /\ env.found = "none"
          /\ gErr' = errNotExist
          /\ gPc' = "failed"
          /\ returned' = returned \cup {"newFromCueFile", "NewGame"}
          /\ UNCHANGED <<game, streams>>
       \/ /\ env.found = "cue"
          /\ streams' = streams \cup {Stream("newFromCueFile", "descriptor", 0)}
          /\ LET r == cueTracks(env, 1, 0, <<>>)
                 file == [Count |-> Len(r.tracks), Tracks |-> r.tracks, Flags |-> 0]
                 e == IF r.err # nil THEN r.err
                      ELSE IF ~IsValid(file) THEN errInvalidCueFile ELSE nil
             IN  /\ game' = [game EXCEPT !.CueFile = DiscCue,
                                   !.gdiFile = IF r.err # nil
                                               THEN [ZeroFile EXCEPT !.Tracks = r.tracks]
                                               ELSE file]
                 /\ gErr' = e
                 /\ gPc' = IF e = nil THEN "readIPBin.OpenFile" ELSE "failed"
                 /\ returned' = IF e = nil THEN returned \cup {"newFromCueFile"}
                                ELSE returned \cup {"newFromCueFile", "NewGame"}
       \/ /\ env.found = "gdi"
          /\ streams' = streams \cup {Stream("NewGame", "descriptor", 0)}
          /\ LET r == UnmarshalText(env.desc)
             IN  /\ game' = [game EXCEPT !.GDIFile = DiscGDI, !.gdiFile = r.f]
                 /\ gErr' = r.err
                 /\ gPc' = IF r.err = nil THEN "readIPBin.OpenFile" ELSE "failed"
                 /\ returned' = IF r.err = nil THEN returned
                                ELSE returned \cup {"NewGame"}
    /\ UNCHANGED <<env, wr, written, created, emitted>>
    /\ UNCHANGED <<codecVars, ipVars>>

\* Game.readIPBin: file, err := game.reader.OpenFile(game.gdiFile.Tracks[2].Name)
readIPBinOpenFile ==
    /\ gPc = "readIPBin.OpenFile"
    /\ IF Fault("readIPBin.OpenFile", 0)
       THEN /\ gErr' = errIO
            /\ gPc' = "failed"
            /\ returned' = returned \cup {"readIPBin", "NewGame"}
            /\ UNCHANGED streams
       ELSE /\ streams' = streams \cup {Stream("readIPBin", "src", 3)}
            /\ gPc' = "readIPBin.Read"
            /\ UNCHANGED <<gErr, returned>>
    /\ UNCHANGED <<env, game, wr, written, created, emitted>>
    /\ UNCHANGED <<codecVars, ipVars>>

\* the rest of Game.readIPBin and of NewGame: 16 sectors are read, a new
\* IPBin decodes them, the deferred Close runs, NewGame returns
readIPBinRead ==
    /\ gPc = "readIPBin.Read"
    /\ IF env.sizes[3] < ipBinSectors * SectorSize
       THEN /\ gErr' = errEOF
            /\ UNCHANGED game
       ELSE LET r == UnmarshalBinary(ZeroIPBin, env.ipbin)
            IN  /\ game' = [game EXCEPT !.IPBin = r.ip]
                /\ gErr' = r.err
    /\ gPc' = IF gErr' = nil THEN "Write" ELSE "failed"
    /\ streams' = AfterDefers({"readIPBin"})
    /\ returned' = returned \cup {"readIPBin", "NewGame"}
    /\ UNCHANGED <<env, wr, written, created, emitted>>
    /\ UNCHANGED <<codecVars, ipVars>>

\* what every return of Game.Write does: the deferred Close calls of Write
\* and of the operations it has called have run
WriteReturns(e, at) ==
    /\ gErr' = e
    /\ gPc' = "done"
    /\ streams' = AfterDefers({"isRedump", "Write", "writeGDIFile"})
    /\ returned' = returned \cup {"Write"} \cup
                   (IF at \in {"Write", "isRedump.OpenFile", "isRedump.Read"}
                    THEN {"isRedump"} ELSE {}) \cup
                   (IF at \in {"writeGDIFile.CreateFile", "writeGDIFile.Write"}
                    THEN {"writeGDIFile"} ELSE {})

\* Game.Write calls Game.isRedump, which calls Game.isValid
WriteIsValid ==
    /\ gPc = "Write"
    /\ LET e == isValid(env, game)
       IN  IF e # nil
           THEN /\ WriteReturns(e, "Write")
                /\ wr' = [wr EXCEPT !.redumpErr = e, !.failedAt = "Write"]
           ELSE /\ gPc' = "isRedump.OpenFile"
                /\ wr' = [wr EXCEPT !.i = NextAudio(game.gdiFile, 0)]
                /\ UNCHANGED <<gErr, streams, returned>>
    /\ UNCHANGED <<env, game, written, created, emitted>>
    /\ UNCHANGED <<codecVars, ipVars>>

\* Game.isRedump, at an audio track: file, err := game.reader.OpenFile(track.Name)
isRedumpOpenFile ==
    /\ gPc = "isRedump.OpenFile"
    /\ IF Fault("isRedump.OpenFile", wr.i)
       THEN /\ WriteReturns(errIO, "isRedump.OpenFile")
            /\ wr' = [wr EXCEPT !.audioTracks = @ + 1, !.redumpErr = errIO,
                              !.failedAt = "isRedump.OpenFile"]
       ELSE /\ streams' = streams \cup {Stream("isRedump", "src", wr.i)}
            /\ gPc' = "isRedump.Read"
            /\ wr' = [wr EXCEPT !.audioTracks = @ + 1]
            /\ UNCHANGED <<gErr, returned>>
    /\ UNCHANGED <<env, game, written, created, emitted>>
    /\ UNCHANGED <<codecVars, ipVars>>

\* Game.isRedump: 16 bytes are read and compared, the file is closed; after
\* the last audio track isRedump returns, and Write copies the track list
isRedumpRead ==
    /\ gPc = "isRedump.Read"
    /\ IF env.sizes[wr.i] < audioProbe
       THEN /\ WriteReturns(errEOF, "isRedump.Read")
            /\ wr' = [wr EXCEPT !.redumpErr = errEOF, !.failedAt = "isRedump.Read"]
       ELSE LET redumpTracks == wr.redumpTracks + (IF env.zeros[wr.i] THEN 1 ELSE 0)
                next == NextAudio(game.gdiFile, wr.i)
                r == isRedumpResult(wr.audioTracks, redumpTracks)
            IN  IF next # 0
                THEN /\ streams' = streams \ {Stream("isRedump", "src", wr.i)}
                     /\ gPc' = "isRedump.OpenFile"
                     /\ wr' = [wr EXCEPT !.redumpTracks = redumpTracks, !.i = next]
                     /\ UNCHANGED <<gErr, returned>>
                ELSE IF r.err # nil
                THEN /\ WriteReturns(r.err, "isRedump.Read")
                     /\ wr' = [wr EXCEPT !.redumpTracks = redumpTracks,
                                       !.redumpErr = r.err,
                                       !.failedAt = "isRedump.Read"]
                ELSE /\ streams' = AfterDefers({"isRedump"})
                     /\ gPc' = "Write.OpenFile"
                     /\ returned' = returned \cup {"isRedump"}
                     /\ wr' = [wr EXCEPT !.redumpTracks = redumpTracks,
                                       !.isRedump = r.isRedump,
                                       !.out = Copy(game.gdiFile),
                                       !.i = 1]
                     /\ UNCHANGED gErr
    /\ UNCHANGED <<env, game, written, created, emitted>>
    /\ UNCHANGED <<codecVars, ipVars>>

\* Game.Write, at track i: src, err := game.reader.OpenFile(track.Name)
WriteOpenFile ==
    /\ gPc = "Write.OpenFile"
    /\ IF Fault("OpenFile", wr.i)
       THEN /\ WriteReturns(errIO, "Write.OpenFile")
            /\ wr' = [wr EXCEPT !.failedAt = "Write.OpenFile"]
       ELSE /\ streams' = streams \cup {Stream("Write", "src", wr.i)}
            /\ gPc' = "Write.Adjust"
            /\ wr' = [wr EXCEPT !.pos = 0]
            /\ UNCHANGED <<gErr, returned>>
    /\ UNCHANGED <<env, game, written, created, emitted>>
    /\ UNCHANGED <<codecVars, ipVars>>

\* the track whose destination dst is, 0 for a dst that is nil
DstTrack ==
    IF \E s \in streams : s.op = "Write" /\ s.kind = "dst"
    THEN (CHOOSE s \in streams : s.op = "Write" /\ s.kind = "dst").track
    ELSE 0

\* Game.Write, at track i: the switch of a redump-style game, whose pregap
\* copy writes to dst as it is, the rename, and the Close of the destination
\* of the track before
WriteAdjust ==
    /\ gPc = "Write.Adjust"
    /\ LET track == game.gdiFile.Tracks[wr.i]
           a == IF wr.isRedump
                THEN redumpAdjust(track, game.gdiFile.Count, env.sizes[wr.i])
                ELSE [copy |-> 0, skip |-> 0, start |-> 0, err |-> nil]
           s1 == addStart(game, wr.out, wr.i, a.start)
           s2 == IF env.cfg.TrackRename # "nil"
                 THEN setName(s1.g, s1.out, wr.i, TrackRename(env.cfg, track))
                 ELSE s1
       IN  /\ written' = IF a.copy > 0
                         THEN Append(written, [track |-> wr.i, dst |-> DstTrack,
                                               from |-> 0, to |-> a.copy])
                         ELSE written
           /\ IF a.err # nil
              THEN /\ WriteReturns(a.err, "Write.Adjust")
                   /\ game' = s1.g
                   /\ wr' = [wr EXCEPT !.out = s1.out, !.pos = a.copy + a.skip,
                                     !.failedAt = "Write.Adjust"]
              ELSE /\ game' = s2.g
                   /\ wr' = [wr EXCEPT !.out = s2.out, !.pos = a.copy + a.skip]
                   /\ streams' = closeDst(streams, wr.i)
                   /\ gPc' = "Write.CreateFile"
                   /\ UNCHANGED <<gErr, returned>>
    /\ UNCHANGED <<env, created, emitted>>
    /\ UNCHANGED <<codecVars, ipVars>>

\* Game.Write, at track i: dst, err = writer.CreateFile(gdiFile.Tracks[i].Name)
WriteCreateFile ==
    /\ gPc = "Write.CreateFile"
    /\ IF Fault("CreateFile", wr.i)
       THEN /\ WriteReturns(errIO, "Write.CreateFile")
            /\ wr' = [wr EXCEPT !.failedAt = "Write.CreateFile"]
            /\ UNCHANGED created
       ELSE /\ streams' = streams \cup {Stream("Write", "dst", wr.i)}
            /\ created' = Append(created, wr.out.file.Tracks[wr.i].Name)
            /\ gPc' = "Write.Copy"
            /\ UNCHANGED <<gErr, returned, wr>>
    /\ UNCHANGED <<env, game, written, emitted>>
    /\ UNCHANGED <<codecVars, ipVars>>

\* Game.Write, at track i: io.Copy(dst, src) of what is left of the source,
\* then src.Close() and the next track
WriteCopy ==
    /\ gPc = "Write.Copy"
    /\ IF Fault("Copy", wr.i)
       THEN /\ WriteReturns(errIO, "Write.Copy")
            /\ wr' = [wr EXCEPT !.failedAt = "Write.Copy"]
            /\ UNCHANGED written
       ELSE /\ written' = Append(written, [track |-> wr.i, dst |-> DstTrack,
                                           from |-> wr.pos, to |-> env.sizes[wr.i]])
            /\ streams' = streams \ {Stream("Write", "src", wr.i)}
            /\ IF wr.i < Len(game.gdiFile.Tracks)
               THEN /\ gPc' = "Write.OpenFile"
                    /\ wr' = [wr EXCEPT !.i = @ + 1]
               ELSE /\ gPc' = "Write.Close"
                    /\ wr' = [wr EXCEPT !.pos = env.sizes[wr.i]]
            /\ UNCHANGED <<gErr, returned>>
    /\ UNCHANGED <<env, game, created, emitted>>
    /\ UNCHANGED <<codecVars, ipVars>>

\* a variant that writes the descriptor whether or not it has a name
WriteClose_Always ==
    /\ gPc = "Write.Close"
    /\ streams' = streams \ {Stream("Write", "dst", wr.i)}
    /\ gPc' = "writeGDIFile.CreateFile"
    /\ UNCHANGED <<gErr, returned, wr>>
    /\ UNCHANGED <<env, game, written, created, emitted>>
    /\ UNCHANGED <<codecVars, ipVars>>

\* Game.Write after the last track: dst.Close(), then writeGDIFile if the
\* configuration names a GDI file; writeCueFile does nothing
WriteClose ==
    /\ gPc = "Write.Close"
    /\ IF env.cfg.GDIFile # <<>>
       THEN /\ streams' = streams \ {Stream("Write", "dst", wr.i)}
            /\ gPc' = "writeGDIFile.CreateFile"
            /\ UNCHANGED <<gErr, returned, wr>>
       ELSE /\ WriteReturns(nil, "Write.Close")
            /\ UNCHANGED wr
    /\ UNCHANGED <<env, game, written, created, emitted>>
    /\ UNCHANGED <<codecVars, ipVars>>

\* writeGDIFile up to file, err := writer.CreateFile(writer.Config().GDIFile)
writeGDIFileCreateFile ==
    /\ gPc = "writeGDIFile.CreateFile"
    /\ LET s == IF env.cfg.TrimWhitespace
                THEN setFlags(game, wr.out, NoWhitespace)
                ELSE [g |-> game, out |-> wr.out]
           r == MarshalText(s.out.file)
       IN  /\ game' = s.g
           /\ IF r.err # nil
              THEN /\ WriteReturns(r.err, "writeGDIFile.CreateFile")
                   /\ wr' = [wr EXCEPT !.out = s.out,
                                     !.failedAt = "writeGDIFile.CreateFile"]
                   /\ UNCHANGED created
              ELSE IF Fault("writeGDIFile.CreateFile", 0)
              THEN /\ WriteReturns(errIO, "writeGDIFile.CreateFile")
                   /\ wr' = [wr EXCEPT !.out = s.out,
                                     !.failedAt = "writeGDIFile.CreateFile"]
                   /\ UNCHANGED created
              ELSE /\ streams' = streams \cup {Stream("writeGDIFile", "dst", 0)}
                   /\ created' = Append(created, env.cfg.GDIFile)
                   /\ gPc' = "writeGDIFile.Write"
                   /\ wr' = [wr EXCEPT !.out = s.out]
                   /\ UNCHANGED <<gErr, returned>>
    /\ UNCHANGED <<env, written, emitted>>
    /\ UNCHANGED <<codecVars, ipVars>>

\* the rest of writeGDIFile and of Game.Write: file.Write(b), the deferred
\* Close, and the return
writeGDIFileWrite ==
    /\ gPc = "writeGDIFile.Write"
    /\ IF Fault("writeGDIFile.Write", 0)
       THEN /\ WriteReturns(errIO, "writeGDIFile.Write")
            /\ wr' = [wr EXCEPT !.failedAt = "writeGDIFile.Write"]
            /\ UNCHANGED emitted
       ELSE /\ WriteReturns(nil, "writeGDIFile.Write")
            /\ emitted' = MarshalText(wr.out.file).b
            /\ UNCHANGED wr
    /\ UNCHANGED <<env, game, written, created>>
    /\ UNCHANGED <<codecVars, ipVars>>

NextGame ==
    \/ NewGameDescriptor
    \/ readIPBinOpenFile
    \/ readIPBinRead
    \/ WriteIsValid
    \/ isRedumpOpenFile
    \/ isRedumpRead
    \/ WriteOpenFile
    \/ WriteAdjust
    \/ WriteCreateFile
    \/ WriteCopy
    \/ WriteClose
    \/ writeGDIFileCreateFile
    \/ writeGDIFileWrite

SpecGame == InitGame /\ [][NextGame]_vars

\* Game.Write has returned nil
WriteSucceeded == gPc = "done" /\ gErr = nil
\* the positions of Game.Write and of what it calls
WritePcs ==
    {"Write", "isRedump.OpenFile", "isRedump.Read", "Write.OpenFile",
     "Write.Adjust", "Write.CreateFile", "Write.Copy", "Write.Close",
     "writeGDIFile.CreateFile", "writeGDIFile.Write"}
\* the byte ranges of track i's source that were copied, in the order they
\* were copied, to any destination; and to the destination created for j
FromSource(i) ==
    LET Own(r) == r.track = i
        own == SelectSeq(written, Own)
    IN  [k \in DOMAIN own |-> <<own[k].from, own[k].to>>]
FromSourceTo(i, j) ==
    LET Own(r) == r.track = i /\ r.dst = j
        own == SelectSeq(written, Own)
    IN  [k \in DOMAIN own |-> <<own[k].from, own[k].to>>]
InStart(i) == game.gdiFile.Tracks[i].Start
OutStart(i) == wr.out.file.Tracks[i].Start

(***************************************************************************)
(* C13: for a valid game whose audio tracks can be read, isRedump returns  *)
(* true when the first 16 bytes of every audio track are zero, false when  *)
(* those of no audio track are, and errInconsistentAudioTracks when those  *)
(* of some but not all are.                                                *)
(***************************************************************************)
AudioTracks == {k \in DOMAIN game.gdiFile.Tracks : game.gdiFile.Tracks[k].Type = 0}
ZeroAudio == {k \in AudioTracks : env.zeros[k]}
\* isRedump has returned, and not because the game is invalid or a file
\* could not be read
IsRedumpDecided ==
    /\ "isRedump" \in returned
    /\ wr.redumpErr \notin {errInvalidGame, errInvalidSize, errIO, errEOF}

C13_IsRedump ==
    IsRedumpDecided =>
        /\ ZeroAudio = AudioTracks => wr.redumpErr = nil /\ wr.isRedump
        /\ ZeroAudio = {} => wr.redumpErr = nil /\ ~wr.isRedump
        /\ ZeroAudio \notin {{}, AudioTracks} =>
              wr.redumpErr = errInconsistentAudioTracks

\* three audio tracks of which the second alone starts with zeros
C13_Witness ==
    /\ IsRedumpDecided
    /\ Cardinality(AudioTracks) = 3
    /\ Cardinality(ZeroAudio) = 1
    /\ ~env.zeros[2]
    /\ gErr = errInconsistentAudioTracks
    /\ gPc = "done"

DataTracks == {k \in DOMAIN game.gdiFile.Tracks : game.gdiFile.Tracks[k].Type = 4}

C15_LastDataTrack ==
    WriteSucceeded /\ wr.isRedump =>
        \A i \in DataTracks :
            IF i = Len(game.gdiFile.Tracks) /\ i > 3
            THEN /\ FromSource(i) = <<<<0, 75 * 2352>>, <<225 * 2352, env.sizes[i]>>>>
                 /\ OutStart(i) = InStart(i) + 225
            ELSE /\ FromSource(i) = <<<<0, env.sizes[i]>>>>
                 /\ OutStart(i) = InStart(i)

\* a redump-style game of five tracks, the fourth and the fifth both data
C15_Witness ==
    /\ WriteSucceeded
    /\ wr.isRedump
    /\ {4, 5} \subseteq DataTracks
    /\ FromSource(5) = <<<<0, 176400>>, <<529200, 705600>>>>
    /\ FromSource(4) = <<<<0, 705600>>>>
    /\ OutStart(5) = InStart(5) + 225

(***************************************************************************)
(* C16: Write never changes the Game's own track list: no Start, Name or   *)
(* Flags of it differs after Write, whether Write succeeds or fails, the   *)
(* game is redump-style or not, tracks are renamed or not and whitespace   *)
(* is trimmed or not; the changes are made to a copy.                      *)
(***************************************************************************)
InputUntouched == gPc \in WritePcs => game'.gdiFile = game.gdiFile

C16_InputUntouched == [][InputUntouched]_vars

\* a redump-style game has been written under new track names, and the
\* copy's last track differs from the Game's in Start and in Name
C16_Witness ==
    /\ WriteSucceeded
    /\ wr.isRedump
    /\ env.cfg.TrackRename = "GDemuTrackName"
    /\ LET n == Len(game.gdiFile.Tracks)
       IN  /\ OutStart(n) # InStart(n)
           /\ wr.out.file.Tracks[n].Name # game.gdiFile.Tracks[n].Name
           /\ game.gdiFile.Tracks[n] = env.layout.Tracks[n]

(***************************************************************************)
(* C17: during Write the tracks are processed in increasing number order,  *)
(* and at every moment at most one destination stream and at most one      *)
(* source stream are open: the destination of a track is closed before     *)
(* the next track's is created, its source before the next is opened.      *)
(***************************************************************************)
OpenOf(kind) ==
    {s \in streams : s.kind = kind /\ s.op \in {"isRedump", "Write", "writeGDIFile"}}
AtMostOneOfEach == Cardinality(OpenOf("dst")) <= 1 /\ Cardinality(OpenOf("src")) <= 1
\* the stream that Write opens or creates is track wr.i's, no other stream of
\* its kind is open, and the tracks below wr.i, and only they, are copied
OpensInOrder ==
    \A s \in streams' \ streams :
        s.op = "Write" =>
            /\ OpenOf(s.kind) = {}
            /\ s.track = wr.i
            /\ \A j \in DOMAIN game.gdiFile.Tracks :
                  (j < s.track) <=> FromSourceTo(j, j) # <<>>
            /\ s.kind = "dst" => Len(created) = s.track - 1

C17_OneAtATime == []AtMostOneOfEach /\ [][OpensInOrder]_vars

\* the last of five tracks is being copied: its source and its destination
\* are the only streams of Write that are open
C17_Witness ==
    /\ gPc = "Write.Copy"
    /\ wr.i = 5
    /\ OpenOf("src") = {Stream("Write", "src", 5)}
    /\ OpenOf("dst") = {Stream("Write", "dst", 5)}
    /\ Len(created) = 5

(***************************************************************************)
(* C18: every stream that an operation opens (the descriptor or cue        *)
(* stream in NewGame, the third track in readIPBin, the audio tracks in    *)
(* isRedump, sources and destinations in Write and writeGDIFile) is closed *)
(* by the time that operation returns, on every exit path.                 *)
(***************************************************************************)
C18_ClosedOnReturn ==
    \A op \in returned : \A s \in streams : s.op # op

(***************************************************************************)
(* C19: Write emits the descriptor only after every track is copied and    *)
(* the last destination closed, and emits it if and only if a descriptor   *)
(* filename is configured; when a step of a track fails, Write returns     *)
(* that error at once: no retry, no further destination, no descriptor.    *)
(***************************************************************************)
DescriptorStarted ==
    \/ \E s \in streams : s.op = "writeGDIFile"
    \/ \E k \in DOMAIN created : created[k] = env.cfg.GDIFile
    \/ emitted # <<>>
AllCopied ==
    \A i \in DOMAIN game.gdiFile.Tracks :
        \E k \in DOMAIN written :
            written[k].track = i /\ written[k].dst = i /\ written[k].to = env.sizes[i]
TrackSteps ==
    {"Write.OpenFile", "Write.Adjust", "Write.CreateFile", "Write.Copy"}
C19_State ==
    /\ DescriptorStarted =>
          /\ AllCopied
          /\ Len(created) >= Len(game.gdiFile.Tracks)
          /\ \A s \in streams : ~(s.op = "Write" /\ s.kind = "dst")
    /\ WriteSucceeded => (emitted # <<>> <=> env.cfg.GDIFile # <<>>)
    /\ wr.failedAt \in TrackSteps =>
          /\ gPc = "done"
          /\ gErr \in {errIO, errEOF}
          /\ ~DescriptorStarted
          /\ Len(created) <= wr.i
          /\ \A k \in DOMAIN written : written[k].track <= wr.i
C19_Failed ==
    wr.failedAt # "none" => UNCHANGED <<gErr, streams, written, created, emitted>>

C19_DescriptorLast == []C19_State /\ [][C19_Failed]_vars

\* the tracks and then the descriptor have been written
C19_Witness ==
    /\ WriteSucceeded
    /\ env.cfg.GDIFile = DiscGDI
    /\ Len(created) = Len(game.gdiFile.Tracks) + 1
    /\ created[Len(created)] = DiscGDI
    /\ emitted # <<>>
    /\ AllCopied

(***************************************************************************)
(* C21: in Write, every byte that is copied while track i is processed is  *)
(* written to the destination created for track i; the 75-sector pregap of *)
(* a last data track goes to that track's own destination and not to the   *)
(* destination of the track before it, which is still open.                *)
(***************************************************************************)
C21_OwnDestination ==
    \A k \in DOMAIN written : written[k].dst = written[k].track

====
